---- MODULE Spec2Model ----
(***************************************************************************)
(* Model of backend/server.py: the chat endpoints (start_conversation,     *)
(* send_message, get_conversation_messages) and the persona endpoints they *)
(* depend on (create_chatbot, delete_chatbot), over the four MongoDB       *)
(* collections.  A handler is an asyncio coroutine: one action per stretch *)
(* of code between two awaits, the awaited store operation taking effect   *)
(* at the beginning of the stretch that follows it.                        *)
(*                                                                         *)
(* Strings are sequences of character codes, so that slicing and           *)
(* concatenation are computed as Python computes them.                     *)
(***************************************************************************)
EXTENDS Integers, Sequences, FiniteSets, TLC

\* ---- bounds of the model ------------------------------------------------
MaxTurns == 1       \* send_message invocations in one run
MaxClock == 1       \* ticks of datetime.utcnow() in one run

\* ---- program constants --------------------------------------------------
ExcerptLen == 50    \* str(e)[:50]

Users      == {"u1", "u2"}      \* identities supplied by get_current_user
Creators   == {"u1"}            \* the users who create a persona
ChatbotIds == {"b1"}            \* uuid4 values available to create_chatbot
ConvIds    == {"c1"}            \* uuid4 values available to start_conversation
Turns      == 1..MaxTurns
Slots      == 1..(MaxTurns + 1)  \* handler frames; the last one runs only beside another

\* ---- strings ------------------------------------------------------------
Chars(n, k) == [i \in 1..n |-> k + (i % 10)]

Slice(s, n) == SubSeq(s, 1, IF Len(s) < n THEN Len(s) ELSE n)

Str(v) == [isstr |-> TRUE, chars |-> v]
PyNone == [isstr |-> FALSE, chars |-> <<>>]

UserText        == Chars(2, 100)     \* message_data.message
ReplyText       == Chars(3, 200)     \* text returned by the provider
ProviderTimeout == Chars(53, 400)    \* str(e) of the provider's exception
StorageError    == Chars(12, 500)    \* str(e) of a failed insert_one
ValidationError == Chars(60, 600)    \* str(e) of pydantic's ValidationError

GatewayResponses == {Str(ReplyText), PyNone}
GatewayErrors    == {ProviderTimeout}

FallbackHead == <<1, 2>>    \* "I'm sorry, ... Please try again later. ("
FallbackTail == <<3>>       \* "...)"

FallbackContent(e) == Str(FallbackHead \o Slice(e, ExcerptLen) \o FallbackTail)

\* ---- persona texts and the system prompt ---------------------------------
BotName         == <<11>>
BotDescription  == <<12>>
BotIntroduction == <<13>>
YouAre          == <<21>>     \* " You are "
Dot             == <<22>>     \* ". "
AdultClause     == <<23>>     \* " You can engage in roleplay and adult content as requested."
FamilyClause    == <<24>>     \* " Keep your responses appropriate and family-friendly."

\* the policy clauses exchanged
SystemMessageInverted(chatbot) ==
    chatbot.introduction \o YouAre \o chatbot.name \o Dot \o chatbot.description
        \o (IF chatbot.is_censored THEN AdultClause ELSE FamilyClause)

SystemMessage(chatbot) ==
    chatbot.introduction \o YouAre \o chatbot.name \o Dot \o chatbot.description
        \o (IF ~chatbot.is_censored THEN AdultClause ELSE FamilyClause)

\* ---- documents ----------------------------------------------------------
NoConversation == [id |-> "none", user_id |-> "none", chatbot_id |-> "none"]
NoChatbot == [id |-> "none", user_id |-> "none", name |-> <<>>, description |-> <<>>,
              introduction |-> <<>>, is_censored |-> TRUE]
NoMessage == [id |-> <<0, 0>>, conversation_id |-> "none", sender_type |-> "none",
              content |-> PyNone, timestamp |-> 0]

MessageDoc(r, n, cid, sender, content, ts) ==
    [id |-> <<r, n>>, conversation_id |-> cid, sender_type |-> sender,
     content |-> content, timestamp |-> ts]

VARIABLES
    chatbots,        \* chatbots_collection: set of documents
    conversations,   \* conversations_collection: set of documents
    messages,        \* messages_collection: documents in insertion order
    clock,           \* datetime.utcnow()
    req,             \* the send_message invocations
    del,             \* the delete_chatbot invocation
    start,           \* the start_conversation invocation
    read,            \* the get_conversation_messages invocation
    issued,          \* the uuid4 values handed out so far
    upd,             \* the update_chatbot invocation
    list,            \* the get_user_conversations invocation
    users,           \* users_collection: set of documents
    reg,             \* the register invocations
    login            \* the login invocation

vars == <<chatbots, conversations, messages, clock, req, del, start, read, issued,
          upd, list, users, reg, login>>

\* ---- send_message -------------------------------------------------------
IdleReq == [pc |-> "idle", conversation_id |-> "none", user |-> "none",
            conversation |-> NoConversation, chatbot |-> NoChatbot,
            user_message_doc |-> NoMessage, bot_message_doc |-> NoMessage,
            response |-> PyNone, e |-> <<>>, status |-> 0, calls |-> <<>>,
            faults |-> {}, disconnected |-> FALSE]

InFlight(r) == req[r].pc \notin {"idle", "done", "closed"}

\* collection.find_one({"id": id}); none stands for Python's None
FindOne(coll, id, none) ==
    IF \E d \in coll : d.id = id THEN CHOOSE d \in coll : d.id = id ELSE none

\* a missing document taken for a document
IsNoneIgnored(doc) == FALSE

\* "if not doc"
IsNone(doc) == doc.id = "none"

Raise(r, code) == req' = [req EXCEPT ![r].pc = "done", ![r].status = code]

\* the ownership check left out
NotOwnerSkipped(doc, user) == FALSE

\* doc["user_id"] != current_user.id
NotOwner(doc, user) == doc.user_id # user

\* lines 282-288: the lookup of the conversation and the ownership check
SendMessage(r, cid, u) ==
    /\ req[r].pc = "idle"
    /\ \A q \in 1..(r - 1) : req[q].pc # "idle"
    /\ LET conversation == FindOne(conversations, cid, NoConversation)
           base == [req EXCEPT ![r].conversation_id = cid, ![r].user = u,
                               ![r].conversation = conversation]
       IN  IF IsNone(conversation)
           THEN req' = [base EXCEPT ![r].pc = "done", ![r].status = 404]
           ELSE IF NotOwner(conversation, u)
                THEN req' = [base EXCEPT ![r].pc = "done", ![r].status = 403]
                ELSE req' = [base EXCEPT ![r].pc = "find_chatbot"]
    /\ UNCHANGED <<chatbots, conversations, messages, clock, del, start, read, issued,
                   upd, list, users, reg, login>>

\* the persona as it was created, kept with the conversation
FindChatbotAsCreated(r) ==
    /\ req[r].pc = "find_chatbot"
    /\ LET chatbot == FindOne(chatbots, req[r].conversation.chatbot_id, NoChatbot)
       IN  IF IsNone(chatbot)
           THEN Raise(r, 404)
           ELSE req' = [req EXCEPT
                    ![r].pc = "insert_user",
                    ![r].chatbot = [chatbot EXCEPT !.name = BotName,
                                                   !.description = BotDescription,
                                                   !.introduction = BotIntroduction,
                                                   !.is_censored = TRUE],
                    ![r].user_message_doc =
                        MessageDoc(r, 1, req[r].conversation_id, "user",
                                   Str(UserText), clock)]
    /\ UNCHANGED <<chatbots, conversations, messages, clock, del, start, read, issued,
                   upd, list, users, reg, login>>

\* lines 290-302: the lookup of the persona; the user document is built
FindChatbot(r) ==
    /\ req[r].pc = "find_chatbot"
    /\ LET chatbot == FindOne(chatbots, req[r].conversation.chatbot_id, NoChatbot)
       IN  IF IsNone(chatbot)
           THEN Raise(r, 404)
           ELSE req' = [req EXCEPT
                    ![r].pc = "insert_user",
                    ![r].chatbot = chatbot,
                    ![r].user_message_doc =
                        MessageDoc(r, 1, req[r].conversation_id, "user",
                                   Str(UserText), clock)]
    /\ UNCHANGED <<chatbots, conversations, messages, clock, del, start, read, issued,
                   upd, list, users, reg, login>>

\* the provider session keyed by the caller instead of the conversation
GatewayCallPerUser(r) ==
    [session_id |-> req[r].user,
     system_message |-> SystemMessage(req[r].chatbot),
     text |-> req[r].user_message_doc.content.chars,
     timeout |-> "none"]

\* LlmChat(api_key, session_id, system_message).send_message(UserMessage(text))
GatewayCall(r) ==
    [session_id |-> req[r].conversation_id,
     system_message |-> SystemMessage(req[r].chatbot),
     text |-> req[r].user_message_doc.content.chars,
     timeout |-> "none"]

\* lines 338-347: the except block up to its insert_one
Except(r, e, n, fault) ==
    [req EXCEPT ![r].pc = "insert_fallback",
                ![r].e = e,
                ![r].faults = @ \cup fault,
                ![r].bot_message_doc =
                    MessageDoc(r, n, req[r].conversation_id, "chatbot",
                               FallbackContent(e), clock)]

\* the user insert placed inside the try block
UserInsertFailedCaught(r) ==
    /\ req' = Except(r, StorageError, 2, {"user_insert"})
    /\ UNCHANGED messages

\* line 303 raised: the exception leaves send_message
UserInsertFailed(r) ==
    /\ req' = [req EXCEPT ![r].pc = "done", ![r].status = 500,
                          ![r].faults = @ \cup {"user_insert"}]
    /\ UNCHANGED messages

\* the user insert waiting for a turn of the same conversation to be answered
UserInsertedLocked(r) ==
    /\ \A q \in Slots \ {r} :
           ~(req[q].pc \in {"await_gateway", "insert_bot", "insert_fallback"}
               /\ req[q].conversation_id = req[r].conversation_id)
    /\ messages' = Append(messages, req[r].user_message_doc)
    /\ req' = [req EXCEPT ![r].pc = "await_gateway",
                          ![r].calls = Append(@, GatewayCall(r))]

\* lines 303-320: the user message is stored, then the provider is called
UserInserted(r) ==
    /\ messages' = Append(messages, req[r].user_message_doc)
    /\ req' = [req EXCEPT ![r].pc = "await_gateway",
                          ![r].calls = Append(@, GatewayCall(r))]

InsertUserMessage(r) ==
    /\ req[r].pc = "insert_user"
    /\ UserInserted(r) \/ UserInsertFailed(r)
    /\ UNCHANGED <<chatbots, conversations, clock, del, start, read, issued, upd, list, users, reg, login>>

\* lines 320-330: the provider answered; the bot document is built
GatewayReturn(r, response) ==
    /\ req[r].pc = "await_gateway"
    /\ req' = [req EXCEPT
            ![r].pc = "insert_bot",
            ![r].response = response,
            ![r].bot_message_doc =
                MessageDoc(r, 2, req[r].conversation_id, "chatbot", response, clock)]
    /\ UNCHANGED <<chatbots, conversations, messages, clock, del, start, read, issued,
                   upd, list, users, reg, login>>

\* line 320 raised
GatewayRaise(r, e) ==
    /\ req[r].pc = "await_gateway"
    /\ req' = Except(r, e, 2, {"gateway"})
    /\ UNCHANGED <<chatbots, conversations, messages, clock, del, start, read, issued,
                   upd, list, users, reg, login>>

\* Message(**doc): content is declared str
Validates(doc) == doc.content.isstr

\* the reply returned without being stored
BotInsertedLost(r) ==
    /\ Raise(r, 200)
    /\ UNCHANGED messages

\* lines 331-336: the bot message is stored, then the response is built
BotInserted(r) ==
    /\ messages' = Append(messages, req[r].bot_message_doc)
    /\ IF Validates(req[r].user_message_doc) /\ Validates(req[r].bot_message_doc)
       THEN Raise(r, 200)
       ELSE req' = Except(r, ValidationError, 3, {})

\* line 331 raised
BotInsertFailed(r) ==
    /\ req' = Except(r, StorageError, 3, {"bot_insert"})
    /\ UNCHANGED messages

InsertBotMessage(r) ==
    /\ req[r].pc = "insert_bot"
    /\ BotInserted(r) \/ BotInsertFailed(r)
    /\ UNCHANGED <<chatbots, conversations, clock, del, start, read, issued, upd, list, users, reg, login>>

\* the fallback written over the last stored message (replace_one)
FallbackInsertedOver(r) ==
    /\ messages' = [messages EXCEPT ![Len(messages)] = req[r].bot_message_doc]
    /\ Raise(r, 200)

\* lines 348-353
FallbackInserted(r) ==
    /\ messages' = Append(messages, req[r].bot_message_doc)
    /\ Raise(r, 200)

\* line 348 raised: the exception leaves send_message
FallbackInsertFailed(r) ==
    /\ req' = [req EXCEPT ![r].pc = "done", ![r].status = 500,
                          ![r].faults = @ \cup {"fallback_insert"}]
    /\ UNCHANGED messages

InsertFallback(r) ==
    /\ req[r].pc = "insert_fallback"
    /\ FallbackInserted(r) \/ FallbackInsertFailed(r)
    /\ UNCHANGED <<chatbots, conversations, clock, del, start, read, issued, upd, list, users, reg, login>>

\* the client went away and the server leaves the coroutine running
DisconnectIgnored(r) ==
    req' = [req EXCEPT ![r].disconnected = TRUE]

\* the client went away and the server cancels the task: CancelledError is
\* raised at line 320; it is no Exception, so line 338 does not catch it
DisconnectCancels(r) ==
    req' = [req EXCEPT ![r].disconnected = TRUE, ![r].pc = "done"]

\* the caller disconnects during the provider call (line 320)
Disconnect(r) ==
    /\ req[r].pc = "await_gateway"
    /\ ~req[r].disconnected
    /\ DisconnectIgnored(r) \/ DisconnectCancels(r)
    /\ UNCHANGED <<chatbots, conversations, messages, clock, del, start, read, issued,
                   upd, list, users, reg, login>>

\* the response has been sent and the coroutine's frame is released
Close(r) ==
    /\ req[r].pc = "done"
    /\ req' = [req EXCEPT ![r] = [IdleReq EXCEPT !.pc = "closed"]]
    /\ UNCHANGED <<chatbots, conversations, messages, clock, del, start, read, issued,
                   upd, list, users, reg, login>>

\* ---- create_chatbot -----------------------------------------------------
\* lines 187-203
CreateChatbot(b, u, censored) ==
    /\ b \notin issued
    /\ issued' = issued \cup {b}
    /\ chatbots' = chatbots \cup
           {[id |-> b, user_id |-> u, name |-> BotName, description |-> BotDescription,
             introduction |-> BotIntroduction, is_censored |-> censored]}
    /\ UNCHANGED <<conversations, messages, clock, req, del, start, read, upd, list, users, reg, login>>

\* ---- start_conversation -------------------------------------------------
\* lines 263-275: the lookup of the persona; the conversation document is built
StartConversation(b, u, c) ==
    /\ start.pc \in {"idle", "done"}
    /\ c \notin issued
    /\ IF IsNone(FindOne(chatbots, b, NoChatbot))
       THEN /\ start' = [pc |-> "done", status |-> 404, doc |-> NoConversation]
            /\ UNCHANGED issued
       ELSE /\ start' = [pc |-> "insert", status |-> 0,
                         doc |-> [id |-> c, user_id |-> u, chatbot_id |-> b]]
            /\ issued' = issued \cup {c}
    /\ UNCHANGED <<chatbots, conversations, messages, clock, req, del, read, upd, list, users, reg, login>>

\* lines 277-279
InsertConversation ==
    /\ start.pc = "insert"
    /\ conversations' = conversations \cup {start.doc}
    /\ start' = [start EXCEPT !.pc = "done", !.status = 200]
    /\ UNCHANGED <<chatbots, messages, clock, req, del, read, issued, upd, list, users, reg, login>>

\* ---- delete_chatbot -----------------------------------------------------
\* removed: the ids of the conversations that line 257 deleted
IdleDel == [pc |-> "idle", chatbot_id |-> "none", user |-> "none",
            chatbot |-> NoChatbot, status |-> 0, removed |-> {}]

\* lines 247-254
DeleteChatbot(b, u) ==
    /\ del.pc = "idle"
    /\ LET chatbot == FindOne(chatbots, b, NoChatbot)
           base == [IdleDel EXCEPT !.chatbot_id = b, !.user = u, !.chatbot = chatbot]
       IN  IF IsNone(chatbot)
           THEN del' = [base EXCEPT !.pc = "done", !.status = 404]
           ELSE IF NotOwner(chatbot, u)
                THEN del' = [base EXCEPT !.pc = "done", !.status = 403]
                ELSE del' = [base EXCEPT !.pc = "delete_chatbot"]
    /\ UNCHANGED <<chatbots, conversations, messages, clock, req, start, read, issued,
                   upd, list, users, reg, login>>

\* line 256
DeleteChatbotDoc ==
    /\ del.pc = "delete_chatbot"
    /\ chatbots' = {d \in chatbots : d.id # del.chatbot_id}
    /\ del' = [del EXCEPT !.pc = "delete_conversations"]
    /\ UNCHANGED <<conversations, messages, clock, req, start, read, issued, upd, list, users, reg, login>>

\* line 257
DeleteConversations ==
    /\ del.pc = "delete_conversations"
    /\ conversations' = {c \in conversations : c.chatbot_id # del.chatbot_id}
    /\ del' = [del EXCEPT !.pc = "delete_messages",
                          !.removed = {c.id : c \in {d \in conversations :
                                                      d.chatbot_id = del.chatbot_id}}]
    /\ UNCHANGED <<chatbots, messages, clock, req, start, read, issued, upd, list, users, reg, login>>

\* the filter of line 258: {"conversation_id": {"$in": []}}
DeleteFilter(m) == m.conversation_id \in {}

\* lines 258-260
DeleteMessages ==
    /\ del.pc = "delete_messages"
    /\ messages' = SelectSeq(messages, LAMBDA m : ~DeleteFilter(m))
    /\ del' = [del EXCEPT !.pc = "done", !.status = 200]
    /\ UNCHANGED <<chatbots, conversations, clock, req, start, read, issued, upd, list, users, reg, login>>

\* ---- get_conversation_messages ------------------------------------------
RECURSIVE Orders(_, _)
\* the sequences that list the documents docs[i], i in S, by timestamp ascending
Orders(docs, S) ==
    IF S = {} THEN {<<>>}
    ELSE UNION { {<<docs[i]>> \o t : t \in Orders(docs, S \ {i})} :
                 i \in {j \in S : \A k \in S : docs[j].timestamp <= docs[k].timestamp} }

\* the find without its filter
SortUnfiltered(cid) == Orders(messages, DOMAIN messages)

\* find({"conversation_id": cid}).sort("timestamp", 1): the order of documents
\* of equal timestamp is not fixed by the sort key
SortByTimestamp(cid) ==
    LET docs == SelectSeq(messages, LAMBDA m : m.conversation_id = cid)
    IN  Orders(docs, DOMAIN docs)

\* the send_message invocations made so far on conversation cid
Called(cid) == {r \in Turns : req[r].pc # "idle" /\ req[r].conversation_id = cid}

IdleRead == [pc |-> "idle", conversation_id |-> "none", user |-> "none",
             conversation |-> NoConversation, status |-> 0,
             messages |-> <<>>, called |-> {}, quiet |-> FALSE]

\* lines 355-362
GetConversationMessages(cid, u) ==
    /\ read.pc \in {"idle", "done"}
    /\ LET conversation == FindOne(conversations, cid, NoConversation)
           base == [IdleRead EXCEPT !.conversation_id = cid, !.user = u,
                                    !.conversation = conversation]
       IN  IF IsNone(conversation)
           THEN read' = [base EXCEPT !.pc = "done", !.status = 404]
           ELSE IF NotOwner(conversation, u)
                THEN read' = [base EXCEPT !.pc = "done", !.status = 403]
                ELSE read' = [base EXCEPT !.pc = "find_messages"]
    /\ UNCHANGED <<chatbots, conversations, messages, clock, req, del, start, issued,
                   upd, list, users, reg, login>>

\* lines 364-368; called and quiet record what send_message had done by then
FindMessages ==
    /\ read.pc = "find_messages"
    /\ \E result \in SortByTimestamp(read.conversation_id) :
           read' = [read EXCEPT !.pc = "done", !.status = 200, !.messages = result,
                                !.called = Called(read.conversation_id),
                                !.quiet = ~\E r \in Turns : InFlight(r)]
    /\ UNCHANGED <<chatbots, conversations, messages, clock, req, del, start, issued,
                   upd, list, users, reg, login>>

\* ---- update_chatbot -----------------------------------------------------
\* the new texts a ChatbotUpdate carries
NewName         == <<14>>
NewDescription  == <<15>>
NewIntroduction == <<16>>

\* ChatbotUpdate: the four optional fields and the set of those the request set
ChatbotUpdate(fields) ==
    [fields_set |-> fields, name |-> NewName, description |-> NewDescription,
     introduction |-> NewIntroduction, is_censored |-> FALSE]

UpdateInputs ==
    {ChatbotUpdate(F) : F \in {{}, {"name"}, {"is_censored"},
                                {"name", "description", "introduction", "is_censored"}}}

NoUpdate == ChatbotUpdate({})

IdleUpd == [pc |-> "idle", chatbot_id |-> "none", user |-> "none",
            chatbot |-> NoChatbot, update_data |-> NoUpdate, status |-> 0,
            result |-> NoChatbot]

\* lines 228-241: the lookup, the ownership check, update_data is built
UpdateChatbot(b, u, data) ==
    /\ upd.pc = "idle"
    /\ LET chatbot == FindOne(chatbots, b, NoChatbot)
           base == [IdleUpd EXCEPT !.chatbot_id = b, !.user = u, !.chatbot = chatbot]
       IN  IF IsNone(chatbot)
           THEN upd' = [base EXCEPT !.pc = "done", !.status = 404]
           ELSE IF NotOwner(chatbot, u)
                THEN upd' = [base EXCEPT !.pc = "done", !.status = 403]
                ELSE upd' = [base EXCEPT
                         !.update_data = data,
                         !.pc = IF data.fields_set # {} THEN "update_one"
                                ELSE "find_updated"]
    /\ UNCHANGED <<chatbots, conversations, messages, clock, req, del, start, read,
                   issued, list, users, reg, login>>

\* {"$set": update_data} applied to a document
Set(doc, data) ==
    [doc EXCEPT
        !.name = IF "name" \in data.fields_set THEN data.name ELSE @,
        !.description = IF "description" \in data.fields_set THEN data.description ELSE @,
        !.introduction = IF "introduction" \in data.fields_set THEN data.introduction ELSE @,
        !.is_censored = IF "is_censored" \in data.fields_set THEN data.is_censored ELSE @]

\* line 242
UpdateOne ==
    /\ upd.pc = "update_one"
    /\ chatbots' = {IF d.id = upd.chatbot_id THEN Set(d, upd.update_data) ELSE d :
                      d \in chatbots}
    /\ upd' = [upd EXCEPT !.pc = "find_updated"]
    /\ UNCHANGED <<conversations, messages, clock, req, del, start, read, issued, list, users, reg, login>>

\* lines 244-245; Chatbot(**None) raises when the persona is gone
FindUpdated ==
    /\ upd.pc = "find_updated"
    /\ LET updated_chatbot == FindOne(chatbots, upd.chatbot_id, NoChatbot)
       IN  upd' = [upd EXCEPT !.pc = "done", !.result = updated_chatbot,
                              !.status = IF IsNone(updated_chatbot) THEN 500 ELSE 200]
    /\ UNCHANGED <<chatbots, conversations, messages, clock, req, del, start, read,
                   issued, list, users, reg, login>>

\* ---- get_user_conversations ---------------------------------------------
IdleList == [pc |-> "idle", user |-> "none", conversations |-> {}]

\* lines 370-376
GetUserConversations(u) ==
    /\ list' = [pc |-> "done", user |-> u,
                conversations |-> {c \in conversations : c.user_id = u}]
    /\ list' # list
    /\ UNCHANGED <<chatbots, conversations, messages, clock, req, del, start, read,
                   issued, upd, users, reg, login>>

\* ---- register, login ------------------------------------------------------
Usernames == {"alice", "bob"}
Passwords == {"pw1", "pw2"}

\* bcrypt.hash and bcrypt.verify
Hash(password) == <<"bcrypt", password>>
Verify(password, password_hash) == password_hash = Hash(password)

NoUser == [id |-> 0, username |-> "none", password_hash |-> Hash("none")]

\* find_one({"username": username}): a matching document, None without one
FindByUsername(username) ==
    IF \E user \in users : user.username = username
    THEN {user \in users : user.username = username}
    ELSE {NoUser}

IdleReg == [pc |-> "idle", username |-> "none", user_doc |-> NoUser, status |-> 0]

\* lines 129-146: the lookup of the username; the user document is built
Register(p, username, password) ==
    /\ reg[p].pc = "idle"
    /\ \A q \in 1..(p - 1) : reg[q].pc # "idle"
    /\ \E existing_user \in FindByUsername(username) :
           IF existing_user # NoUser
           THEN reg' = [reg EXCEPT ![p] = [IdleReg EXCEPT !.pc = "done",
                                                          !.username = username,
                                                          !.status = 400]]
           ELSE reg' = [reg EXCEPT ![p] =
                           [pc |-> "insert", username |-> username, status |-> 0,
                            user_doc |-> [id |-> p, username |-> username,
                                          password_hash |-> Hash(password)]]]
    /\ UNCHANGED <<chatbots, conversations, messages, clock, req, del, start, read,
                   issued, upd, list, users, login>>

\* lines 148-160
InsertUser(p) ==
    /\ reg[p].pc = "insert"
    /\ users' = users \cup {reg[p].user_doc}
    /\ reg' = [reg EXCEPT ![p].pc = "done", ![p].status = 200]
    /\ UNCHANGED <<chatbots, conversations, messages, clock, req, del, start, read,
                   issued, upd, list, login>>

IdleLogin == [pc |-> "idle", username |-> "none", status |-> 0, id |-> 0]

\* lines 162-179
Login(username, password) ==
    /\ \E user \in FindByUsername(username) :
           login' = IF user = NoUser \/ ~Verify(password, user.password_hash)
                    THEN [pc |-> "done", username |-> username, status |-> 401, id |-> 0]
                    ELSE [pc |-> "done", username |-> username, status |-> 200,
                          id |-> user.id]
    /\ login' # login
    /\ UNCHANGED <<chatbots, conversations, messages, clock, req, del, start, read,
                   issued, upd, list, users, reg>>

\* ---- the clock ----------------------------------------------------------
Tick ==
    /\ clock < MaxClock
    /\ clock' = clock + 1
    /\ UNCHANGED <<chatbots, conversations, messages, req, del, start, read, issued,
                   upd, list, users, reg, login>>

Init ==
    /\ chatbots = {}
    /\ conversations = {}
    /\ messages = <<>>
    /\ clock = 0
    /\ req = [r \in Slots |-> IdleReq]
    /\ del = IdleDel
    /\ start = [pc |-> "idle", status |-> 0, doc |-> NoConversation]
    /\ read = IdleRead
    /\ issued = {}
    /\ upd = IdleUpd
    /\ list = IdleList
    /\ users = {}
    /\ reg = [p \in Slots |-> IdleReg]
    /\ login = IdleLogin

Next ==
    \/ \E r \in Turns, cid \in ConvIds, u \in Users : SendMessage(r, cid, u)
    \/ \E r \in Turns : FindChatbot(r)
    \/ \E r \in Turns : InsertUserMessage(r)
    \/ \E r \in Turns, response \in GatewayResponses : GatewayReturn(r, response)
    \/ \E r \in Turns, e \in GatewayErrors : GatewayRaise(r, e)
    \/ \E r \in Turns : InsertBotMessage(r)
    \/ \E r \in Turns : InsertFallback(r)
    \/ \E r \in Turns : Close(r)
    \/ \E b \in ChatbotIds, u \in Creators, censored \in {TRUE} : CreateChatbot(b, u, censored)
    \/ \E b \in ChatbotIds, u \in Users, c \in ConvIds : StartConversation(b, u, c)
    \/ InsertConversation
    \/ \E b \in ChatbotIds, u \in Users : DeleteChatbot(b, u)
    \/ DeleteChatbotDoc
    \/ DeleteConversations
    \/ DeleteMessages
    \/ Tick

Spec == Init /\ [][Next]_vars

\* A ready coroutine is resumed by the event loop and a store operation ends;
\* nothing obliges the provider to answer (GatewayReturn, GatewayRaise).
FairSpec ==
    /\ Spec
    /\ \A r \in Turns : /\ WF_vars(FindChatbot(r))
                        /\ WF_vars(InsertUserMessage(r))
                        /\ WF_vars(InsertBotMessage(r))
                        /\ WF_vars(InsertFallback(r))

\* The endpoints of Spec with callers that may disconnect.
NextCancel ==
    \/ Next
    \/ \E r \in Turns : Disconnect(r)

SpecCancel == Init /\ [][NextCancel]_vars

\* The persona endpoints beside one conversation: the persona is created,
\* edited and deleted while turns run.
NextPersona ==
    \/ \E b \in ChatbotIds, u \in Creators, censored \in {TRUE} : CreateChatbot(b, u, censored)
    \/ \E b \in ChatbotIds, u \in Users, data \in UpdateInputs : UpdateChatbot(b, u, data)
    \/ UpdateOne
    \/ FindUpdated
    \/ \E b \in ChatbotIds, u \in Users : DeleteChatbot(b, u)
    \/ DeleteChatbotDoc
    \/ DeleteConversations
    \/ DeleteMessages
    \/ \E b \in ChatbotIds, u \in Users, c \in ConvIds : StartConversation(b, u, c)
    \/ InsertConversation
    \/ \E r \in Turns, cid \in ConvIds, u \in Users : SendMessage(r, cid, u)
    \/ \E r \in Turns : FindChatbot(r)
    \/ \E r \in Turns : InsertUserMessage(r)
    \/ \E r \in Turns, response \in GatewayResponses : GatewayReturn(r, response)
    \/ \E r \in Turns, e \in GatewayErrors : GatewayRaise(r, e)
    \/ \E r \in Turns : InsertBotMessage(r)
    \/ \E r \in Turns : InsertFallback(r)

SpecPersona == Init /\ [][NextPersona]_vars

\* send_message called only while no other send_message is running
SerialSendMessage(r, cid, u) ==
    /\ \A q \in Turns : ~InFlight(q)
    /\ SendMessage(r, cid, u)

\* The turns run one after another and the transcript is read; the records
\* of the finished turns are kept.
NextRead ==
    \/ \E r \in Turns, cid \in ConvIds, u \in Users : SerialSendMessage(r, cid, u)
    \/ \E r \in Turns : FindChatbot(r)
    \/ \E r \in Turns : InsertUserMessage(r)
    \/ \E r \in Turns, response \in GatewayResponses : GatewayReturn(r, response)
    \/ \E r \in Turns, e \in GatewayErrors : GatewayRaise(r, e)
    \/ \E r \in Turns : InsertBotMessage(r)
    \/ \E r \in Turns : InsertFallback(r)
    \/ \E b \in ChatbotIds, u \in Creators, censored \in {TRUE} : CreateChatbot(b, u, censored)
    \/ \E b \in ChatbotIds, u \in Users, c \in ConvIds : StartConversation(b, u, c)
    \/ InsertConversation
    \/ \E b \in ChatbotIds, u \in Users : DeleteChatbot(b, u)
    \/ DeleteChatbotDoc
    \/ DeleteConversations
    \/ DeleteMessages
    \/ \E cid \in ConvIds, u \in Users : GetConversationMessages(cid, u)
    \/ FindMessages
    \/ Tick

SpecRead == Init /\ [][NextRead]_vars

\* Two conversations of one user, the turns one after another, and the
\* transcript read by either user; nothing is deleted.
TranscriptConvIds == ConvIds \cup {"c2"}

NextTranscript ==
    \/ \E b \in ChatbotIds, u \in Creators, censored \in {TRUE} : CreateChatbot(b, u, censored)
    \/ \E b \in ChatbotIds, u \in Creators, c \in TranscriptConvIds : StartConversation(b, u, c)
    \/ InsertConversation
    \/ \E r \in Turns, cid \in TranscriptConvIds, u \in Users : SerialSendMessage(r, cid, u)
    \/ \E r \in Turns : FindChatbot(r)
    \/ \E r \in Turns : InsertUserMessage(r)
    \/ \E r \in Turns, response \in GatewayResponses : GatewayReturn(r, response)
    \/ \E r \in Turns, e \in GatewayErrors : GatewayRaise(r, e)
    \/ \E r \in Turns : InsertBotMessage(r)
    \/ \E r \in Turns : InsertFallback(r)
    \/ \E cid \in TranscriptConvIds, u \in Users : GetConversationMessages(cid, u)
    \/ FindMessages

SpecTranscript == Init /\ [][NextTranscript]_vars

\* One conversation and every endpoint that reads or edits beside its turns;
\* nothing is deleted.
NextEndpoints ==
    \/ \E b \in ChatbotIds, u \in Creators, censored \in {TRUE} : CreateChatbot(b, u, censored)
    \/ \E b \in ChatbotIds, u \in Creators, c \in ConvIds : StartConversation(b, u, c)
    \/ InsertConversation
    \/ \E r \in Turns, cid \in ConvIds, u \in Creators : SerialSendMessage(r, cid, u)
    \/ \E r \in Turns : FindChatbot(r)
    \/ \E r \in Turns : InsertUserMessage(r)
    \/ \E r \in Turns, response \in GatewayResponses : GatewayReturn(r, response)
    \/ \E r \in Turns, e \in GatewayErrors : GatewayRaise(r, e)
    \/ \E r \in Turns : InsertBotMessage(r)
    \/ \E r \in Turns : InsertFallback(r)
    \/ \E cid \in ConvIds, u \in Creators : GetConversationMessages(cid, u)
    \/ FindMessages
    \/ \E b \in ChatbotIds, u \in Creators : UpdateChatbot(b, u, ChatbotUpdate({"name"}))
    \/ UpdateOne
    \/ FindUpdated
    \/ \E u \in Users : GetUserConversations(u)

SpecEndpoints == Init /\ [][NextEndpoints]_vars

\* Requests of one user on one conversation, one more than the turns of the
\* other specifications, all in flight together.
NextPair ==
    \/ \E b \in ChatbotIds, u \in Creators, censored \in {TRUE} : CreateChatbot(b, u, censored)
    \/ \E b \in ChatbotIds, u \in Creators, c \in ConvIds : StartConversation(b, u, c)
    \/ InsertConversation
    \/ \E r \in Slots, cid \in ConvIds, u \in Creators : SendMessage(r, cid, u)
    \/ \E r \in Slots : FindChatbot(r)
    \/ \E r \in Slots : InsertUserMessage(r)
    \/ \E r \in Slots, response \in GatewayResponses : GatewayReturn(r, response)
    \/ \E r \in Slots, e \in GatewayErrors : GatewayRaise(r, e)
    \/ \E r \in Slots : InsertBotMessage(r)
    \/ \E r \in Slots : InsertFallback(r)

SpecPair == Init /\ [][NextPair]_vars

\* The accounts: register calls in flight together, and login.
NextRegister ==
    \/ \E p \in Slots, username \in Usernames, password \in Passwords :
           Register(p, username, password)
    \/ \E p \in Slots : InsertUser(p)
    \/ \E username \in Usernames, password \in Passwords : Login(username, password)

SpecRegister == Init /\ [][NextRegister]_vars

\* ==== properties ==========================================================
Stored(doc) == \E i \in DOMAIN messages : messages[i] = doc

\* the positions of the messages written by invocation r
WrittenBy(r) == {i \in DOMAIN messages : messages[i].id[1] = r}

BotWrittenBy(r) == {i \in WrittenBy(r) : messages[i].sender_type = "chatbot"}

PassedChecks(r) == req[r].chatbot.id # "none"

\* C1: an invocation that has stored its user message and has ended has also
\* stored a bot message (reply or fallback) for the same conversation.
C1_UserTurnAnswered ==
    \A r \in Turns :
        (req[r].pc = "done" /\ Stored(req[r].user_message_doc))
            => \E i \in BotWrittenBy(r) :
                   messages[i].conversation_id = req[r].conversation_id

\* C2: when the provider call raised, the invocation ends with status 200,
\* both returned messages are stored, and the bot message is the fallback text
\* around at most the first 50 characters of the failure reason.
C2_GatewayFailureAnswered ==
    \A r \in Turns :
        (req[r].pc = "done" /\ "gateway" \in req[r].faults)
            => /\ req[r].status = 200
               /\ Stored(req[r].user_message_doc)
               /\ Stored(req[r].bot_message_doc)
               /\ \E k \in 0..ExcerptLen :
                      req[r].bot_message_doc.content =
                          Str(FallbackHead \o SubSeq(req[r].e, 1, k) \o FallbackTail)

\* C3: an invocation whose caller is not the owner of the conversation it
\* found ends with 403, has written no message and has not called the provider.
C3_NotOwnerRejected ==
    \A r \in Turns :
        (/\ req[r].pc \notin {"idle", "closed"}
         /\ req[r].conversation.id # "none"
         /\ req[r].conversation.user_id # req[r].user)
            => /\ req[r].pc = "done"
               /\ req[r].status = 403
               /\ WrittenBy(r) = {}
               /\ req[r].calls = <<>>

C3_Witness ==
    \E r \in Turns :
        /\ req[r].status = 403
        /\ req[r].conversation.id = req[r].conversation_id
        /\ messages = <<>>

\* C4: an invocation that found no conversation, or no persona for the
\* conversation it found, ends with 404, has written no message and has not
\* called the provider.
C4_NotFoundRejected ==
    \A r \in Turns :
        /\ (req[r].pc \notin {"idle", "closed"} /\ req[r].conversation.id = "none")
               => req[r].pc = "done" /\ req[r].status = 404
        /\ (/\ req[r].pc \notin {"idle", "closed", "find_chatbot"}
            /\ req[r].conversation.user_id = req[r].user
            /\ req[r].chatbot.id = "none")
               => req[r].pc = "done" /\ req[r].status = 404
        /\ req[r].status = 404 => WrittenBy(r) = {} /\ req[r].calls = <<>>

\* a conversation was found and its persona was not
C4_Witness ==
    \E r \in Turns :
        /\ req[r].status = 404
        /\ req[r].conversation.id = req[r].conversation_id
        /\ req[r].chatbot.id = "none"

\* C5: an invocation that passed the checks, met no failing store write and
\* got a string from the provider ends with 200 and returns one user and one
\* bot message, both stored, the bot message carrying the provider's reply and
\* a timestamp not before the user message's.
C5_HealthyTurn ==
    \A r \in Turns :
        (/\ req[r].pc = "done"
         /\ PassedChecks(r)
         /\ req[r].faults = {}
         /\ req[r].response.isstr)
            => LET user == req[r].user_message_doc
                   bot  == req[r].bot_message_doc
               IN  /\ req[r].status = 200
                   /\ Stored(user) /\ Stored(bot)
                   /\ Cardinality(WrittenBy(r)) = 2
                   /\ user.sender_type = "user" /\ bot.sender_type = "chatbot"
                   /\ user.conversation_id = req[r].conversation_id
                   /\ bot.conversation_id = req[r].conversation_id
                   /\ user.content = Str(UserText)
                   /\ bot.content = req[r].response
                   /\ bot.timestamp >= user.timestamp

\* a healthy turn whose two messages have different timestamps
C5_Witness ==
    \E r \in Turns :
        /\ req[r].pc = "done" /\ req[r].status = 200
        /\ req[r].faults = {} /\ req[r].response.isstr
        /\ req[r].bot_message_doc.timestamp > req[r].user_message_doc.timestamp

\* C6: no invocation appends more than two messages.
C6_AtMostTwoMessages ==
    \A r \in Turns : Cardinality(WrittenBy(r)) <= 2

\* C7: an invocation whose user-message write failed ends with status 500,
\* has not called the provider and has written no message.
C7_UserWriteFailure ==
    \A r \in Turns :
        "user_insert" \in req[r].faults
            => /\ req[r].pc = "done"
               /\ req[r].status = 500
               /\ req[r].calls = <<>>
               /\ WrittenBy(r) = {}

C7_Witness ==
    \E r \in Turns : "user_insert" \in req[r].faults /\ PassedChecks(r)

\* C8 as stated: every invocation that passed the three checks has called the
\* provider exactly once by the time it ends.
C8_OncePerAcceptedRequest ==
    \A r \in Turns :
        (req[r].pc = "done" /\ PassedChecks(r)) => Len(req[r].calls) = 1

\* C8 as amended: the provider is called at most once per invocation, with the
\* conversation id as session key and only once the user message is stored;
\* exactly once when the checks passed and the user message was stored; not at
\* all when the request was rejected or the user-message write failed.
C8_GatewayOnce ==
    \A r \in Turns :
        /\ Len(req[r].calls) <= 1
        /\ req[r].calls # <<>>
               => /\ req[r].calls[1].session_id = req[r].conversation_id
                  /\ Stored(req[r].user_message_doc)
        /\ (PassedChecks(r) /\ Stored(req[r].user_message_doc))
               => Len(req[r].calls) = 1
        /\ (req[r].pc = "done" /\ (req[r].status \in {403, 404}
                                   \/ "user_insert" \in req[r].faults))
               => req[r].calls = <<>>

C8_Witness ==
    \E r \in Turns :
        /\ req[r].pc = "done" /\ req[r].status = 200
        /\ Len(req[r].calls) = 1
        /\ req[r].calls[1].session_id \in ConvIds

\* the invocations in S in call order
RECURSIVE InOrder(_)
InOrder(S) ==
    IF S = {} THEN <<>>
    ELSE LET r == CHOOSE x \in S : \A y \in S : x <= y
         IN  <<r>> \o InOrder(S \ {r})

\* C9, for invocations that all ended with 200 after a reply from the provider
\* and no failed write: a read made when the N invocations on a conversation
\* have ended returns 2N messages, by timestamp ascending, user then bot for
\* each invocation in call order.
C9_ReadAlternates ==
    (/\ read.pc = "done" /\ read.status = 200 /\ read.quiet
     /\ \A r \in read.called : /\ req[r].status = 200
                               /\ req[r].faults = {}
                               /\ req[r].response.isstr)
        => LET res   == read.messages
               turns == InOrder(read.called)
           IN  /\ Len(res) = 2 * Len(turns)
               /\ \A i \in 1..(Len(res) - 1) : res[i].timestamp <= res[i + 1].timestamp
               /\ \A i \in DOMAIN turns :
                      /\ res[2 * i - 1] = req[turns[i]].user_message_doc
                      /\ res[2 * i] = req[turns[i]].bot_message_doc

\* C10: an invocation waiting for the provider ends.
C10_Terminates ==
    \A r \in Turns : (req[r].pc = "await_gateway") ~> (req[r].pc = "done")
\* C11: an invocation whose caller disconnected during the provider call and
\* that has ended has kept its user message and has stored a bot message.
C11_DisconnectedTurnCompleted ==
    \A r \in Turns :
        (req[r].pc = "done" /\ req[r].disconnected)
            => /\ Stored(req[r].user_message_doc)
               /\ BotWrittenBy(r) # {}

\* C12: once delete_chatbot has returned 200, no message is left for a
\* conversation of the deleted persona.
C12_CascadeDelete ==
    (del.pc = "done" /\ del.status = 200)
        => \A i \in DOMAIN messages : messages[i].conversation_id \notin del.removed

\* C13: a message is appended only while the conversation it names exists.
C13_WrittenWhileConversationExists ==
    [][\A i \in (DOMAIN messages') \ (DOMAIN messages) :
           \E c \in conversations : c.id = messages'[i].conversation_id]_vars

\* C16: a conversation is inserted only while the persona it names exists.
C16_CreatedForExistingPersona ==
    [][\A c \in conversations' \ conversations :
           \E b \in chatbots : b.id = c.chatbot_id]_vars
\* C14: the system prompt of every gateway call is the persona's introduction,
\* " You are ", its name, ". ", its description and the policy clause chosen
\* by is_censored, in that order; equal personas give equal prompts, and the
\* persona with is_censored toggled gives the same text up to the clause.
Prefix(chatbot) ==
    chatbot.introduction \o YouAre \o chatbot.name \o Dot \o chatbot.description

Clause(censored) == IF censored THEN FamilyClause ELSE AdultClause

Prompts == {<<req[r].chatbot, req[r].calls[i].system_message>> :
                r \in {q \in Turns : req[q].calls # <<>>}, i \in {1}}

C14_SystemPrompt ==
    /\ \A p \in Prompts :
           /\ p[2] = Prefix(p[1]) \o Clause(p[1].is_censored)
           /\ SystemMessage([p[1] EXCEPT !.is_censored = ~@])
                  = Prefix(p[1]) \o Clause(~p[1].is_censored)
    /\ \A p, q \in Prompts :
           (p[1].name = q[1].name /\ p[1].description = q[1].description
               /\ p[1].introduction = q[1].introduction
               /\ p[1].is_censored = q[1].is_censored) => p[2] = q[2]

C14_Witness ==
    \E p \in Prompts : p[1].name = NewName /\ ~p[1].is_censored

\* C17: update_chatbot and delete_chatbot called by a user who is not the
\* persona's creator end with 403, and the step that rejects leaves personas,
\* conversations and messages as they were.
Rejected(h) == ~IsNone(h.chatbot) /\ h.chatbot.user_id # h.user

C17_NonCreatorRejected ==
    [][/\ Rejected(upd') => (upd'.pc = "done" /\ upd'.status = 403)
       /\ Rejected(del') => (del'.pc = "done" /\ del'.status = 403)
       /\ ((Rejected(upd') /\ upd' # upd) \/ (Rejected(del') /\ del' # del))
              => UNCHANGED <<chatbots, conversations, messages>>]_vars

C17_Witness ==
    /\ upd.status = 403
    /\ del.status = 403
    /\ chatbots # {}

\* C19: a turn reads the persona from the store when it runs: the persona it
\* holds after line 290 is the stored one of its conversation, and its prompt
\* is built from that persona, so turns after an update use the new fields.
C19_PersonaReadPerTurn ==
    [][\A r \in Turns :
          /\ (req[r].pc = "find_chatbot" /\ req'[r].pc = "insert_user")
                 => /\ req'[r].chatbot \in chatbots
                    /\ req'[r].chatbot.id = req'[r].conversation.chatbot_id
          /\ (req'[r].calls # <<>>)
                 => req'[r].calls[1].system_message = SystemMessage(req'[r].chatbot)]_vars

C19_Witness ==
    \E r \in Turns :
        /\ upd.status = 200
        /\ upd.result.name = NewName
        /\ req[r].calls # <<>>
        /\ req[r].calls[1].system_message = SystemMessage(upd.result)
        /\ req[r].calls[1].system_message # SystemMessage([upd.result EXCEPT !.name = BotName])
\* C18: nothing makes a turn atomic: while one send_message waits for the
\* provider with its user message stored, another send_message on the same
\* conversation can store its user message, so the transcript can hold both
\* user messages before either reply.
C18_TurnsInterleave ==
    \A r, q \in Slots :
        (/\ r # q
         /\ req[r].pc = "await_gateway"
         /\ req[q].pc = "insert_user"
         /\ req[q].conversation_id = req[r].conversation_id)
            => ENABLED (InsertUserMessage(q) /\ messages' # messages)

C18_Witness ==
    /\ Len(messages) = 4
    /\ messages[1].sender_type = "user"
    /\ messages[2].sender_type = "user"
    /\ messages[3].sender_type = "chatbot"
    /\ messages[4].sender_type = "chatbot"
    /\ messages[1].id[1] # messages[2].id[1]
    /\ messages[3].id[1] = messages[1].id[1]
    /\ messages[4].id[1] = messages[2].id[1]
    /\ \A i \in 1..4 : messages[i].conversation_id = messages[1].conversation_id
\* C15: stored messages are never changed or removed by send_message,
\* get_conversation_messages, start_conversation, update_chatbot or
\* get_user_conversations: every step keeps each stored message at its place.
C15_AppendOnly ==
    [][\A i \in DOMAIN messages :
          i \in DOMAIN messages' /\ messages'[i] = messages[i]]_vars

C15_Witness ==
    /\ Len(messages) >= 3
    /\ upd.status = 200
    /\ read.status = 200
    /\ list.pc = "done"

\* C20: get_conversation_messages answers 404 for an unknown conversation and
\* 403 for a conversation of another user, returns messages only to the owner,
\* only stored messages of the requested conversation, and changes no store.
ReadStep == read' # read

C20_OwnerReadsOwnTranscript ==
    [][ReadStep =>
          /\ UNCHANGED <<chatbots, conversations, messages>>
          /\ read'.status = 404
                 => ~\E c \in conversations : c.id = read'.conversation_id
          /\ read'.status = 403
                 => \E c \in conversations :
                        c.id = read'.conversation_id /\ c.user_id # read'.user
          /\ read'.status = 200
                 => \E c \in conversations :
                        c.id = read'.conversation_id /\ c.user_id = read'.user
          /\ read'.status # 200 => read'.messages = <<>>
          /\ \A i \in DOMAIN read'.messages :
                 /\ read'.messages[i].conversation_id = read'.conversation_id
                 /\ Stored(read'.messages[i])]_vars

C20_Witness ==
    /\ read.status = 200
    /\ read.messages = <<>>
    /\ messages # <<>>
    /\ \A i \in DOMAIN messages : messages[i].conversation_id # read.conversation_id
\* C21: the user store holds at most one user per username, also when two
\* register calls with the same username run together.
C21_UsernameUnique ==
    \A a, b \in users : a.username = b.username => a = b
====
